---- MODULE Spec2Model ----
(***************************************************************************)
(* Model of spdx3tohtml's renderer (src/spdx3tohtml/main.py): the class    *)
(* OutputFile, whose write() indexes the identifiers of a JSON-LD document *)
(* and then walks the document depth first, writing annotated markup.      *)
(*                                                                         *)
(* The recursion of write_obj / write_key_value / write_value / write_list *)
(* is modelled by an explicit call stack; one action is one stretch of     *)
(* code between two recursive calls (or a return).                         *)
(***************************************************************************)
EXTENDS Integers, Sequences, FiniteSets, TLC

(***************************************************************************)
(* Strings.  A Python string is modelled as the sequence of its            *)
(* "/"-separated segments, each segment a sequence of atoms (an atom is a  *)
(* character, or an opaque run of characters none of which is special to   *)
(* any operation of the program).  "a/b" is << <<"a">>, <<"b">> >>, the    *)
(* empty string is << <<>> >>.  None is the sequence with no segment.      *)
(***************************************************************************)
None == <<>>

EmptyStr == << <<>> >>

\* the one-atom string
S(a) == << <<a>> >>

\* the string whose "/"-separated segments are the given atoms ("" for an
\* empty segment)
Path(segs) == [i \in 1..Len(segs) |-> IF segs[i] = "" THEN <<>> ELSE <<segs[i]>>]

\* a + b
StrCat(a, b) ==
    SubSeq(a, 1, Len(a) - 1) \o <<a[Len(a)] \o b[1]>> \o Tail(b)

\* s.rstrip("/")
RECURSIVE rstrip_slash(_)
rstrip_slash(s) ==
    IF Len(s) > 1 /\ s[Len(s)] = <<>>
    THEN rstrip_slash(SubSeq(s, 1, Len(s) - 1))
    ELSE s

\* s.startswith("http://") or s.startswith("https://")
starts_with_http(s) ==
    /\ Len(s) >= 3
    /\ s[1] \in {<<"http:">>, <<"https:">>}
    /\ s[2] = <<>>

\* html.escape of one atom (quote=True)
escape_atom(a) ==
    CASE a = "&"  -> <<"&", "a", "m", "p", ";">>
      [] a = "<"  -> <<"&", "l", "t", ";">>
      [] a = ">"  -> <<"&", "g", "t", ";">>
      [] a = "\"" -> <<"&", "q", "u", "o", "t", ";">>
      [] a = "'"  -> <<"&", "#", "x", "2", "7", ";">>
      [] OTHER    -> <<a>>

RECURSIVE escape_seg(_)
escape_seg(seg) ==
    IF seg = <<>> THEN <<>> ELSE escape_atom(Head(seg)) \o escape_seg(Tail(seg))

\* html.escape(s)
html_escape(s) == [i \in 1..Len(s) |-> escape_seg(s[i])]

\* the characters of s in order, "/" between segments
RECURSIVE Flatten(_)
Flatten(s) ==
    IF Len(s) = 0 THEN <<>>
    ELSE IF Len(s) = 1 THEN s[1]
    ELSE s[1] \o <<"/">> \o Flatten(Tail(s))

\* sub in s
Contains(s, sub) ==
    LET fs == Flatten(s)
        fb == Flatten(sub)
    IN  \E i \in 1..(Len(fs) - Len(fb) + 1) : SubSeq(fs, i, i + Len(fb) - 1) = fb

(***************************************************************************)
(* JSON values: tagged records.  t is the runtime type; s the string (for  *)
(* "str") or json.dumps(v) (for "bool", "num", "null"); kv the ordered     *)
(* key/value pairs of an object; items the elements of an array.           *)
(***************************************************************************)
Str(s)   == [t |-> "str",  s |-> s,    kv |-> <<>>, items |-> <<>>]
Lit(a)   == [t |-> "str",  s |-> S(a), kv |-> <<>>, items |-> <<>>]
Bool(a)  == [t |-> "bool", s |-> S(a), kv |-> <<>>, items |-> <<>>]
Num(a)   == [t |-> "num",  s |-> S(a), kv |-> <<>>, items |-> <<>>]
Null     == [t |-> "null", s |-> S("null"), kv |-> <<>>, items |-> <<>>]
Obj(kv)  == [t |-> "obj",  s |-> None, kv |-> kv,   items |-> <<>>]
Arr(xs)  == [t |-> "list", s |-> None, kv |-> <<>>, items |-> xs]
KV(k, v) == [k |-> S(k), v |-> v]

\* k in obj
HasKey(obj, k) == \E i \in 1..Len(obj.kv) : obj.kv[i].k = k

\* obj[k], for a key the object has
Get(obj, k) == obj.kv[CHOOSE i \in 1..Len(obj.kv) : obj.kv[i].k = k].v

\* bool(v) for a JSON value: "", 0, false, null, {} and [] are falsy
Truthy(v) ==
    CASE v.t = "str"  -> v.s # EmptyStr
      [] v.t = "obj"  -> v.kv # <<>>
      [] v.t = "list" -> v.items # <<>>
      [] v.t = "bool" -> v.s = S("true")
      [] v.t = "num"  -> v.s # S("0")
      [] OTHER        -> FALSE

\* get_obj_id(obj): the value of "@id", else of "spdxId", else None
get_obj_id(obj) ==
    IF HasKey(obj, S("@id")) THEN Get(obj, S("@id"))
    ELSE IF HasKey(obj, S("spdxId")) THEN Get(obj, S("spdxId"))
    ELSE Null

(***************************************************************************)
(* JSON-LD contexts.  The program holds a context as a dict and passes     *)
(* nested contexts by reference; here a context is named, and Contexts     *)
(* gives for each name its "@vocab" entry (None when absent) and its term  *)
(* entries.  A term entry is a plain IRI string (dict = FALSE, id the      *)
(* string) or a descriptor object (dict = TRUE) with an optional "@id"     *)
(* (None when absent) and an optional "@context" (NoCtx when absent).      *)
(***************************************************************************)
NoCtx == ""

Plain(iri) == [dict |-> FALSE, id |-> iri, ctx |-> NoCtx]

Desc(id, ctx) == [dict |-> TRUE, id |-> id, ctx |-> ctx]

MkTerms(ps) ==
    [n \in {S(ps[i][1]) : i \in 1..Len(ps)} |->
        ps[CHOOSE i \in 1..Len(ps) : S(ps[i][1]) = n][2]]

\* an IRI of the SPDX 3.0.1 RDF namespace
Terms(p, n) == Path(<<"https:", "", "spdx.org", "rdf", "3.0.1", "terms", p, n>>)

CtxNames == {"root", "nested", "vocab", "scenario1", "scenario1b"}

Contexts ==
    [c \in CtxNames |->
        CASE c = "root" ->
               [vocab |-> None,
                terms |-> MkTerms(<<
                    <<"SpdxDocument",   Plain(Terms("Core", "SpdxDocument"))>>,
                    <<"Person",         Desc(Terms("Core", "Person"), NoCtx)>>,
                    <<"type",           Plain(S("@type"))>>,
                    <<"spdxId",         Plain(S("@id"))>>,
                    <<"name",           Plain(Terms("Core", "name"))>>,
                    <<"label",          Desc(Terms("Core", "name"), NoCtx)>>,
                    <<"creationInfo",   Desc(Terms("Core", "creationInfo"), "nested")>>,
                    <<"scope",          Desc(None, "nested")>>,
                    <<"annotationType", Desc(Terms("Core", "annotationType"), "vocab")>>,
                    <<"import",         Plain(Terms("Core", "import"))>>,
                    <<"externalSpdxId", Plain(Terms("Core", "externalSpdxId"))>> >>)]
          [] c = "nested" ->
               [vocab |-> None,
                terms |-> MkTerms(<<
                    <<"name",    Plain(Terms("Software", "name"))>>,
                    <<"created", Plain(Terms("Core", "created"))>> >>)]
          [] c = "vocab" ->
               [vocab |-> Path(<<"https:", "", "spdx.org", "rdf", "3.0.1", "terms",
                                 "Core", "AnnotationType", "">>),
                terms |-> MkTerms(<< <<"inner", Desc(None, "nested")>> >>)]
          [] c = "scenario1" ->
               [vocab |-> None,
                terms |-> MkTerms(<<
                    <<"type", Desc(Path(<<"https:", "", "spdx.org", "rdf", "3.0.1",
                                          "terms", "Core", "Classes", "SpdxDocument">>),
                                   NoCtx)>> >>)]
          [] OTHER ->
               [vocab |-> None,
                terms |-> MkTerms(<<
                    <<"SpdxDocument", Desc(Terms("Core", "SpdxDocument"), NoCtx)>> >>)]]

\* "@vocab" in context
HasVocab(context) == Contexts[context].vocab # None

\* name in context
CtxHas(context, name) ==
    \/ name \in DOMAIN Contexts[context].terms
    \/ name = S("@vocab") /\ HasVocab(context)

\* context[name], for a name in the context
CtxGet(context, name) ==
    IF name \in DOMAIN Contexts[context].terms
    THEN Contexts[context].terms[name]
    ELSE Plain(Contexts[context].vocab)

(***************************************************************************)
(* OutputFile.get_anchor: the anchor of a term, None when it was handed    *)
(* out before.  Returns the anchor and the new self.anchors.               *)
(***************************************************************************)
anchor_candidate(name, prefix, context) ==
    LET found == IF CtxHas(context, name)
                 THEN CtxGet(context, name).id
                 ELSE None
    IN  IF found = None \/ found = EmptyStr
        THEN StrCat(S(prefix), StrCat(S("-"), name))
        ELSE found

get_anchor(name, prefix, context, anchors) ==
    LET anchor == anchor_candidate(name, prefix, context)
    IN  IF anchor \in anchors
        THEN [anchor |-> None, anchors |-> anchors]
        ELSE [anchor |-> anchor, anchors |-> anchors \cup {anchor}]

(***************************************************************************)
(* OutputFile.index_data: self.ids from the top-level nodes of "@graph".   *)
(* err is "KeyError" when a lookup obj["type"] or i["externalSpdxId"]      *)
(* fails; the exception leaves the loop at that node.                      *)
(***************************************************************************)
RECURSIVE index_imports(_, _)
index_imports(imports, ids) ==
    IF imports = <<>> THEN [ids |-> ids, err |-> ""]
    ELSE IF ~HasKey(Head(imports), S("externalSpdxId"))
    THEN [ids |-> ids, err |-> "KeyError"]
    ELSE index_imports(Tail(imports),
                       ids \cup {Get(Head(imports), S("externalSpdxId")).s})

RECURSIVE index_nodes(_, _)
index_nodes(graph, ids) ==
    IF graph = <<>> THEN [ids |-> ids, err |-> ""]
    ELSE
      LET obj    == Head(graph)
          obj_id == get_obj_id(obj)
      IN  IF ~Truthy(obj_id) THEN index_nodes(Tail(graph), ids)
          ELSE IF ~HasKey(obj, S("type"))
          THEN [ids |-> ids \cup {obj_id.s}, err |-> "KeyError"]
          ELSE IF Get(obj, S("type")) = Str(S("SpdxDocument"))
          THEN LET r == index_imports(
                            IF HasKey(obj, S("import"))
                            THEN Get(obj, S("import")).items ELSE <<>>,
                            ids \cup {obj_id.s})
               IN  IF r.err # "" THEN r ELSE index_nodes(Tail(graph), r.ids)
          ELSE index_nodes(Tail(graph), ids \cup {obj_id.s})

index_data(doc) ==
    index_nodes(IF HasKey(doc, S("@graph")) THEN Get(doc, S("@graph")).items ELSE <<>>,
                {})

(***************************************************************************)
(* OutputFile.get_doc_url.  typ is "Classes", "Properties" or NoTyp (None).*)
(***************************************************************************)
NoTyp == ""

Unresolved(sub_context) == [url |-> None, sub |-> sub_context, typ |-> NoTyp]

\* lines 165-169: split the IRI and fill the URL template
derive_url(rdf_uri, typ, sub_context) ==
    LET p == rstrip_slash(rdf_uri)
    IN  IF Len(p) < 3 THEN Unresolved(sub_context)
        ELSE [url |-> Path(<<"https:", "", "spdx.github.io", "spdx-spec",
                             "v3.0.1", "model">>)
                       \o <<p[Len(p) - 1], <<typ>>, p[Len(p)]>>,
              sub |-> sub_context,
              typ |-> typ]

\* resolve_doc_url that never takes the "@context" of a descriptor
resolve_doc_url_same_context(typ, name, context) ==
    IF HasVocab(context)
    THEN derive_url(Contexts[context].vocab, "Vocabularies", context)
    ELSE IF typ = NoTyp THEN Unresolved(context)
    ELSE IF ~CtxHas(context, name) THEN Unresolved(context)
    ELSE LET rdf_uri == CtxGet(context, name)
         IN  IF rdf_uri.dict /\ rdf_uri.id = None
             THEN Unresolved(context)
             ELSE derive_url(rdf_uri.id, typ, context)

\* lines 144-169: the URL, the sub-context and the kind, before the check
resolve_doc_url(typ, name, context) ==
    IF HasVocab(context)
    THEN derive_url(Contexts[context].vocab, "Vocabularies", context)
    ELSE IF typ = NoTyp THEN Unresolved(context)
    ELSE IF ~CtxHas(context, name) THEN Unresolved(context)
    ELSE LET rdf_uri     == CtxGet(context, name)
             sub_context == IF rdf_uri.dict /\ rdf_uri.ctx # NoCtx
                            THEN rdf_uri.ctx ELSE context
         IN  IF rdf_uri.dict /\ rdf_uri.id = None
             THEN Unresolved(sub_context)
             ELSE derive_url(rdf_uri.id, typ, sub_context)

\* what urllib.request.urlopen(url) can answer
Responses == {"ok", "404", "HTTPError", "URLError"}

\* check_url without the look-up in self.checked_urls
check_url_uncached(url, checked, resp) ==
    IF resp = "ok"
    THEN [call |-> TRUE, raised |-> "", checked |-> checked \cup {url}]
    ELSE [call |-> TRUE,
          raised |-> IF resp = "404" THEN "Exception" ELSE resp,
          checked |-> checked]

\* check_url with the 404 caught and not raised again
check_url_404_passes(url, checked, resp) ==
    IF url \in checked
    THEN [call |-> FALSE, raised |-> "", checked |-> checked \cup {url}]
    ELSE IF resp \in {"ok", "404"}
    THEN [call |-> TRUE, raised |-> "", checked |-> checked \cup {url}]
    ELSE [call |-> TRUE, raised |-> resp, checked |-> checked]

\* lines 171-180: the existence check.  call: a request was sent;
\* raised: the exception that leaves get_doc_url ("" for none);
\* checked: the new self.checked_urls
check_url(url, checked, resp) ==
    IF url \in checked
    THEN [call |-> FALSE, raised |-> "", checked |-> checked \cup {url}]
    ELSE IF resp = "ok"
    THEN [call |-> TRUE, raised |-> "", checked |-> checked \cup {url}]
    ELSE [call |-> TRUE,
          raised |-> IF resp = "404" THEN "Exception" ELSE resp,
          checked |-> checked]

\* typ.lower()
css_class_of(typ) ==
    CASE typ = "Classes"      -> "classes"
      [] typ = "Properties"   -> "properties"
      [] typ = "Vocabularies" -> "vocabularies"
      [] OTHER                -> ""

\* the whole function: url (None when unresolved), sub, css, and the effect
\* of the check
get_doc_url(typ, name, context, checked, resp) ==
    LET r == resolve_doc_url(typ, name, context)
    IN  IF r.url = None
        THEN [url |-> None, sub |-> r.sub, css |-> "",
              call |-> FALSE, raised |-> "", checked |-> checked]
        ELSE LET c == check_url(r.url, checked, resp)
             IN  [url |-> r.url, sub |-> r.sub, css |-> css_class_of(r.typ),
                  call |-> c.call, raised |-> c.raised, checked |-> c.checked]

\* the message of the exception raised for a 404
not_valid_message(url) == StrCat(S("Url '"), StrCat(url, S(" is not valid")))

(***************************************************************************)
(* Output.  The file is the sequence of the pieces written to it; a piece  *)
(* is an event [e, s, cls]:                                                *)
(*   span_id   <span id="s">          s is already html-escaped            *)
(*   span_end  </span> closing such a span                                 *)
(*   a         <a href="s">           s is already html-escaped            *)
(*   a_end     </a>                                                        *)
(*   string    string(s, cls)         the quoted, styled string            *)
(*   literal   <span class="cls">s</span>   booleans, numbers, null        *)
(*   token     LBRACE, RBRACE, LBRACKET, RBRACKET, COLON, COMMA (in cls)   *)
(*   indent    indent_str(n)                                               *)
(*   nl        newline()                                                   *)
(*   raw       fixed text of the page (named in cls)                       *)
(***************************************************************************)
Ev(e, s, cls) == [e |-> e, s |-> s, cls |-> cls, n |-> 0]

SpanId(id)  == Ev("span_id", html_escape(id), "")
SpanEnd     == Ev("span_end", None, "")
AOpen(href) == Ev("a", html_escape(href), "")
AEnd        == Ev("a_end", None, "")
Token(c)    == Ev("token", None, c)
Indent(n)   == [e |-> "indent", s |-> None, cls |-> "", n |-> n]
NL          == Ev("nl", None, "")
Raw(name)   == Ev("raw", None, name)

\* the pieces for an optional wrapper: one piece when cond, else none
When(cond, ev) == IF cond THEN <<ev>> ELSE <<>>

(***************************************************************************)
(* State                                                                   *)
(***************************************************************************)
VARIABLES
    data,          \* self.data: the input document
    root,          \* self.context["@context"]: the name of the root context
    status,        \* where main() is
    stack,         \* the call stack of the walk, innermost frame last
    out,           \* self.f: the pieces written so far
    anchors,       \* self.anchors
    ids,           \* self.ids
    checked_urls,  \* self.checked_urls
    requests,      \* the requests get_doc_url has sent, in order, each with
                   \* the answer it got: [url, resp]
    error          \* the exception that ended the run, if any

vars == <<data, root, status, stack, out, anchors, ids, checked_urls, requests, error>>

NoError == [kind |-> "", msg |-> None, url |-> None]

\* a call write_obj / write_list / write_key_value / write_value(val, ...)
\* that has not started yet
Call(pc, key, val, indent, context, typ) ==
    [pc |-> pc, key |-> key, val |-> val, indent |-> indent, ctx |-> context,
     typ |-> typ, i |-> 0, anchor |-> None]

Top == stack[Len(stack)]

Rest == SubSeq(stack, 1, Len(stack) - 1)

Running(pc) == status = "rendering" /\ stack # <<>> /\ Top.pc = pc

\* an exception leaves the walk: every frame is unwound
Raise(kind, msg, url, written) ==
    /\ status' = "raised"
    /\ error' = [kind |-> kind, msg |-> msg, url |-> url]
    /\ stack' = <<>>
    /\ out' = out \o written

\* the exception get_doc_url raised: Exception(f"Url '{url} is not valid")
\* for a 404, else the error of urlopen itself
RaiseFrom(g, written) ==
    Raise(g.raised,
          IF g.raised = "Exception" THEN not_valid_message(g.url) ELSE None,
          g.url, written)

\* the request log after a call of get_doc_url that got the answer resp
\* if it sent a request
Requested(g, resp) ==
    IF g.call THEN Append(requests, [url |-> g.url, resp |-> resp]) ELSE requests

(***************************************************************************)
(* Input documents.  A document is {"@context": <url>, "@graph": [...]}    *)
(* with up to MaxGraph top-level nodes drawn from NodePool, or has no      *)
(* "@graph" at all.                                                        *)
(***************************************************************************)
MaxGraph == 2

ExampleDoc == Path(<<"https:", "", "example.com", "doc">>)

\* Scenario 1's node
NodeDoc ==
    Obj(<<KV("@id", Lit("urn:x")), KV("type", Lit("SpdxDocument"))>>)

\* an identified SpdxDocument with an import
NodeDocImports ==
    Obj(<<KV("type", Lit("SpdxDocument")),
          KV("spdxId", Str(ExampleDoc)),
          KV("name", Lit("urn:x")),
          KV("import", Arr(<<Obj(<<KV("type", Lit("ExternalMap")),
                                   KV("externalSpdxId", Lit("urn:ext"))>>)>>))>>)

\* an SpdxDocument without identifier, with an import
NodeAnonDoc ==
    Obj(<<KV("type", Lit("SpdxDocument")),
          KV("import", Arr(<<Obj(<<KV("externalSpdxId", Lit("urn:other"))>>)>>))>>)

\* type, own identifier and externalSpdxId together; a nested identified object
NodePerson ==
    Obj(<<KV("type", Lit("Person")),
          KV("spdxId", Lit("urn:p")),
          KV("externalSpdxId", Lit("urn:ext")),
          KV("creationInfo", Obj(<<KV("@id", Lit("urn:nested")),
                                   KV("name", Lit("Person")),
                                   KV("label", Lit("name")),
                                   KV("created", Num("5"))>>))>>)

\* an identifier that is also a class name; strings in arrays; references
NodeNamed ==
    Obj(<<KV("spdxId", Lit("Person")),
          KV("type", Lit("Person")),
          KV("label", Arr(<<Lit("name"), Bool("true"), Arr(<<>>), Null, Obj(<<>>)>>)),
          KV("annotationType", Lit("urn:x")),
          KV("name", Str(ExampleDoc))>>)

\* objects under a "@vocab" context and under a descriptor without "@id"
NodeAnnotation ==
    Obj(<<KV("spdxId", Str(<< <<"urn:a", "&", "b">> >>)),
          KV("type", Lit("Annotation")),
          KV("annotationType", Obj(<<KV("inner", Obj(<<KV("name", Lit("review"))>>))>>)),
          KV("scope", Obj(<<KV("name", Lit("name")), KV("label", Lit("x"))>>))>>)

\* an identified node without "type"
NodeUntyped ==
    Obj(<<KV("spdxId", Lit("urn:q")), KV("name", Lit("q"))>>)

\* a node whose "type" is an array
NodeListType ==
    Obj(<<KV("type", Arr(<<Lit("Person")>>)), KV("name", Lit("r"))>>)

NodePool ==
    {NodeDoc, NodeDocImports, NodeAnonDoc, NodePerson, NodeNamed, NodeAnnotation,
     NodeUntyped, NodeListType}

ContextUrl ==
    Str(Path(<<"https:", "", "spdx.org", "rdf", "3.0.1", "spdx-context.jsonld">>))

Doc(graph) == Obj(<<KV("@context", ContextUrl), KV("@graph", Arr(graph))>>)

Documents ==
    {Obj(<<KV("@context", ContextUrl)>>)}
    \cup {Doc(g) : g \in UNION {[1..n -> NodePool] : n \in 0..MaxGraph}}

RootContexts == {"root", "scenario1", "scenario1b"}

(***************************************************************************)
(* Init: main() has loaded the input and constructed OutputFile(f, data),  *)
(* which fetched the context document.                                     *)
(***************************************************************************)
Init ==
    /\ data \in Documents
    /\ root \in RootContexts
    /\ status = "constructed"
    /\ stack = <<>>
    /\ out = <<>>
    /\ anchors = {}
    /\ ids = {}
    /\ checked_urls = {}
    /\ requests = <<>>
    /\ error = NoError

\* main(), lines 333-351: the page head
main_begin ==
    /\ status = "constructed"
    /\ status' = "ready"
    /\ out' = out \o <<Raw("head")>>
    /\ UNCHANGED <<data, root, stack, anchors, ids, checked_urls, requests, error>>

\* OutputFile.write, lines 292-310: index_data(), the legend, and the call
\* of write_obj on the document
write ==
    /\ status = "ready"
    /\ LET r == index_data(data)
       IN  /\ anchors' = {}
           /\ ids' = r.ids
           /\ IF r.err # ""
              THEN Raise(r.err, None, None, <<>>)
              ELSE /\ status' = "rendering"
                   /\ out' = out \o <<Raw("legend"), Raw("pre")>>
                   /\ stack' = <<Call("write_obj", None, data, 0, root, NoTyp)>>
                   /\ error' = error
    /\ UNCHANGED <<data, root, checked_urls, requests>>

\* OutputFile.write, line 311, after write_obj returned
write_end ==
    /\ status = "rendering"
    /\ stack = <<>>
    /\ status' = "written"
    /\ out' = out \o <<Raw("pre_end")>>
    /\ UNCHANGED <<data, root, stack, anchors, ids, checked_urls, requests, error>>

\* main(), lines 354-363: the page foot
main_end ==
    /\ status = "written"
    /\ status' = "done"
    /\ out' = out \o <<Raw("foot")>>
    /\ UNCHANGED <<data, root, stack, anchors, ids, checked_urls, requests, error>>

\* main(): an exception of o.write() leaves the with block (the file is
\* closed) and main; the process ends
main_unwind ==
    /\ status = "raised"
    /\ status' = "exited"
    /\ UNCHANGED <<data, root, stack, out, anchors, ids, checked_urls, requests, error>>

(***************************************************************************)
(* write_obj(obj, indent, context)                                         *)
(***************************************************************************)
\* obj.get("externalSpdxId")
external_obj_id(obj) ==
    IF HasKey(obj, S("externalSpdxId")) THEN Get(obj, S("externalSpdxId")) ELSE Null

\* obj_open with the external identifier's span opened before the own
\* identifier's
obj_open_external_first(anchor, obj) ==
    When(anchor # None, SpanId(anchor))
    \o When(Truthy(external_obj_id(obj)), SpanId(external_obj_id(obj).s))
    \o When(Truthy(get_obj_id(obj)), SpanId(get_obj_id(obj).s))
    \o <<Token("{"), NL>>

\* lines 257-269: the wrappers opened before the brace, and the brace
obj_open(anchor, obj) ==
    When(anchor # None, SpanId(anchor))
    \o When(Truthy(get_obj_id(obj)), SpanId(get_obj_id(obj).s))
    \o When(Truthy(external_obj_id(obj)), SpanId(external_obj_id(obj).s))
    \o <<Token("{"), NL>>

\* lines 281-289: the brace and the wrappers closed after it
obj_close(anchor, obj, indent) ==
    <<Indent(indent), Token("}")>>
    \o When(Truthy(external_obj_id(obj)), SpanEnd)
    \o When(Truthy(get_obj_id(obj)), SpanEnd)
    \o When(anchor # None, SpanEnd)

\* the call write_key_value(keys[i], obj[keys[i]], indent + 1, context)
CallKeyValue(f, i) ==
    Call("write_key_value", f.val.kv[i].k, f.val.kv[i].v, f.indent + 1, f.ctx, NoTyp)

\* lines 252-274: up to the first call of write_key_value, or, for an
\* object without keys, to the end.  A "type" that is not a string makes
\* get_anchor raise TypeError.
write_obj_enter ==
    /\ Running("write_obj")
    /\ LET f   == Top
           obj == f.val
       IN  IF HasKey(obj, S("type")) /\ Get(obj, S("type")).t # "str"
           THEN /\ Raise("TypeError", None, None, <<>>)
                /\ UNCHANGED anchors
           ELSE LET a == IF HasKey(obj, S("type"))
                         THEN get_anchor(Get(obj, S("type")).s, "class", f.ctx, anchors)
                         ELSE [anchor |-> None, anchors |-> anchors]
                IN  /\ anchors' = a.anchors
                    /\ UNCHANGED <<status, error>>
                    /\ IF obj.kv = <<>>
                       THEN /\ out' = out \o obj_open(a.anchor, obj)
                                          \o obj_close(a.anchor, obj, f.indent)
                            /\ stack' = Rest
                       ELSE /\ out' = out \o obj_open(a.anchor, obj)
                            /\ stack' = Rest \o <<[f EXCEPT !.pc = "obj_resume",
                                                            !.i = 1,
                                                            !.anchor = a.anchor],
                                                  CallKeyValue(f, 1)>>
    /\ UNCHANGED <<data, root, ids, checked_urls, requests>>

\* lines 274-289: after a call of write_key_value returned
write_obj_resume ==
    /\ Running("obj_resume")
    /\ LET f == Top
       IN  IF f.i < Len(f.val.kv)
           THEN /\ out' = out \o <<Token(","), NL>>
                /\ stack' = Rest \o <<[f EXCEPT !.i = f.i + 1], CallKeyValue(f, f.i + 1)>>
           ELSE /\ out' = out \o <<NL>> \o obj_close(f.anchor, f.val, f.indent)
                /\ stack' = Rest
    /\ UNCHANGED <<data, root, status, anchors, ids, checked_urls, requests, error>>

(***************************************************************************)
(* write_key_value(k, v, indent, context)                                  *)
(***************************************************************************)
\* value_typ that expects no kind under any key
value_typ_never(k) == NoTyp

\* value_typ that expects a class under every key
value_typ_always(k) == "Classes"

\* lines 223-225: the kind expected of the value
value_typ(k) == IF k = S("type") THEN "Classes" ELSE NoTyp

\* lines 217-222: the key, linked when it resolved, and the colon
key_pieces(k, g) ==
    When(g.url # None, AOpen(g.url))
    \o <<Ev("string", k, IF g.css # "" THEN g.css ELSE "string")>>
    \o When(g.url # None, AEnd)
    \o <<Token(":")>>

\* lines 211-226: up to the call of write_value
write_key_value_enter ==
    /\ Running("write_key_value")
    /\ \E resp \in Responses :
         LET f       == Top
             a       == get_anchor(f.key, "property", f.ctx, anchors)
             g       == get_doc_url("Properties", f.key, f.ctx, checked_urls, resp)
             written == When(a.anchor # None, SpanId(a.anchor)) \o <<Indent(f.indent)>>
         IN  /\ anchors' = a.anchors
             /\ checked_urls' = g.checked
             /\ requests' = Requested(g, resp)
             /\ IF g.raised # ""
                THEN RaiseFrom(g, written)
                ELSE /\ out' = out \o written \o key_pieces(f.key, g)
                     /\ stack' = Rest \o <<[f EXCEPT !.pc = "kv_resume",
                                                     !.anchor = a.anchor],
                                           Call("write_value", f.key, f.val, f.indent,
                                                g.sub, value_typ(f.key))>>
                     /\ UNCHANGED <<status, error>>
    /\ UNCHANGED <<data, root, ids>>

\* lines 228-229: after write_value returned
write_key_value_resume ==
    /\ Running("kv_resume")
    /\ out' = out \o When(Top.anchor # None, SpanEnd)
    /\ stack' = Rest
    /\ UNCHANGED <<data, root, status, anchors, ids, checked_urls, requests, error>>

(***************************************************************************)
(* write_value(v, indent, context, typ)                                    *)
(***************************************************************************)
\* string_pieces with the documentation link tried before the identity index
string_pieces_doc_first(v, g, idents) ==
    IF g.url # None
    THEN <<AOpen(g.url), Ev("string", v, g.css), AEnd>>
    ELSE IF v \in idents
    THEN <<AOpen(StrCat(S("#"), v)), Ev("string", v, "ident"), AEnd>>
    ELSE IF starts_with_http(v)
    THEN <<AOpen(v), Ev("string", v, "link"), AEnd>>
    ELSE <<Ev("string", v, "string")>>

\* lines 187-200: a string, by the first branch that applies
string_pieces(v, g, idents) ==
    IF v \in idents
    THEN <<AOpen(StrCat(S("#"), v)), Ev("string", v, "ident"), AEnd>>
    ELSE IF g.url # None
    THEN <<AOpen(g.url), Ev("string", v, g.css), AEnd>>
    ELSE IF starts_with_http(v)
    THEN <<AOpen(v), Ev("string", v, "link"), AEnd>>
    ELSE <<Ev("string", v, "string")>>

\* lines 205-208: booleans, and numbers and null
literal_piece(v) ==
    Ev("literal", v.s, IF v.t = "bool" THEN "boolean" ELSE "number")

\* the whole of write_value for a string, a boolean, a number or null; for
\* an object or an array write_value is the call of write_obj or write_list
write_value ==
    /\ Running("write_value")
    /\ LET f == Top
           v == f.val
       IN  CASE v.t = "str" ->
                  \E resp \in Responses :
                    LET g == get_doc_url(f.typ, v.s, f.ctx, checked_urls, resp)
                    IN  /\ checked_urls' = g.checked
                        /\ requests' = Requested(g, resp)
                        /\ IF g.raised # ""
                           THEN RaiseFrom(g, <<>>)
                           ELSE /\ out' = out \o string_pieces(v.s, g, ids)
                                /\ stack' = Rest
                                /\ UNCHANGED <<status, error>>
             [] v.t = "obj" ->
                  /\ stack' = Rest \o <<Call("write_obj", f.key, v, f.indent, f.ctx, NoTyp)>>
                  /\ UNCHANGED <<status, error, out, checked_urls, requests>>
             [] v.t = "list" ->
                  /\ stack' = Rest \o <<Call("write_list", f.key, v, f.indent, f.ctx, NoTyp)>>
                  /\ UNCHANGED <<status, error, out, checked_urls, requests>>
             [] OTHER ->
                  /\ out' = out \o <<literal_piece(v)>>
                  /\ stack' = Rest
                  /\ UNCHANGED <<status, error, checked_urls, requests>>
    /\ UNCHANGED <<data, root, anchors, ids>>

(***************************************************************************)
(* write_list(lst, indent, context)                                        *)
(***************************************************************************)
\* the call write_value(lst[i], indent + 1, context)
CallItem(f, i) ==
    Call("write_value", f.key, f.val.items[i], f.indent + 1, f.ctx, NoTyp)

\* list_close without the bracket
list_close_no_bracket(indent) == <<Indent(indent)>>

\* line 249
list_close(indent) == <<Indent(indent), Token("]")>>

\* lines 236-241: up to the first call of write_value, or, for an empty
\* list, to the end
write_list_enter ==
    /\ Running("write_list")
    /\ LET f == Top
       IN  IF f.val.items = <<>>
           THEN /\ out' = out \o <<Token("["), NL>> \o list_close(f.indent)
                /\ stack' = Rest
           ELSE /\ out' = out \o <<Token("["), NL, Indent(f.indent + 1)>>
                /\ stack' = Rest \o <<[f EXCEPT !.pc = "list_resume", !.i = 1],
                                      CallItem(f, 1)>>
    /\ UNCHANGED <<data, root, status, anchors, ids, checked_urls, requests, error>>

\* lines 242-249: after a call of write_value returned
write_list_resume ==
    /\ Running("list_resume")
    /\ LET f == Top
       IN  IF f.i < Len(f.val.items)
           THEN /\ out' = out \o <<Token(","), NL, Indent(f.indent + 1)>>
                /\ stack' = Rest \o <<[f EXCEPT !.i = f.i + 1], CallItem(f, f.i + 1)>>
           ELSE /\ out' = out \o <<NL>> \o list_close(f.indent)
                /\ stack' = Rest
    /\ UNCHANGED <<data, root, status, anchors, ids, checked_urls, requests, error>>

Next ==
    \/ main_begin
    \/ write
    \/ write_obj_enter
    \/ write_obj_resume
    \/ write_key_value_enter
    \/ write_key_value_resume
    \/ write_value
    \/ write_list_enter
    \/ write_list_resume
    \/ write_end
    \/ main_end
    \/ main_unwind

Spec == Init /\ [][Next]_vars

(***************************************************************************)
(* Properties                                                              *)
(***************************************************************************)
\* a documentation URL, written out
ModelUrl(profile, kind, n) ==
    Path(<<"https:", "", "spdx.github.io", "spdx-spec", "v3.0.1", "model",
           profile, kind, n>>)

\* the positions of out that hold a piece of kind e
At(e) == {i \in 1..Len(out) : out[i].e = e}

Failed == status \in {"raised", "exited"}

\* C1: no id attribute value is written twice in one render: the values of
\* all <span id=...> pieces written are pairwise distinct.
C1_NoDuplicateIds ==
    \A i, j \in At("span_id") : i # j => out[i].s # out[j].s

\* C2: a string value that is a member of self.ids is rendered as the
\* same-page link <a href="#v"> styled "ident", whatever the context and the
\* expected kind, and whatever else it resolves to.
C2_IdentityWins ==
    [][(/\ Running("write_value")
        /\ Top.val.t = "str"
        /\ Top.val.s \in ids
        /\ status' = "rendering")
       => out' = out \o <<Ev("a", html_escape(StrCat(S("#"), Top.val.s)), ""),
                          Ev("string", Top.val.s, "ident"),
                          Ev("a_end", None, "")>>]_vars

\* an identifier that is a class name of the context has been rendered as a
\* same-page link, after its documentation URL was derived and checked; and
\* an identifier starting with https:// has been rendered so too
C2_Witness ==
    /\ root = "root"
    /\ \E i \in At("string") :
         /\ out[i].cls = "ident" /\ out[i].s = S("Person")
         /\ out[i - 1] = Ev("a", << <<"#", "Person">> >>, "")
    /\ \E r \in 1..Len(requests) :
         requests[r].url = ModelUrl("Core", "Classes", "Person")
    /\ \E i \in At("string") : out[i].cls = "ident" /\ out[i].s = ExampleDoc

\* C3: a documentation URL is requested at most once in one render; a URL
\* whose check succeeded is in checked_urls, and checked_urls holds only
\* URLs that were requested (once) and answered.
C3_CheckedOnce ==
    /\ \A i, j \in 1..Len(requests) : i # j => requests[i].url # requests[j].url
    /\ \A i \in 1..Len(requests) :
         requests[i].resp = "ok" => requests[i].url \in checked_urls
    /\ \A u \in checked_urls :
         \E i \in 1..Len(requests) : requests[i].url = u /\ requests[i].resp = "ok"

\* the keys "name" and "label", two terms of the root context with the same
\* IRI, were both linked to the one URL, and it was requested once
C3_Witness ==
    /\ status = "done"
    /\ \E i, j \in At("string") :
         /\ out[i] = Ev("string", S("name"), "properties")
         /\ out[j] = Ev("string", S("label"), "properties")
         /\ out[i - 1] = Ev("a", ModelUrl("Core", "Properties", "name"), "")
         /\ out[j - 1] = out[i - 1]
    /\ Cardinality({r \in 1..Len(requests) :
                      requests[r].url = ModelUrl("Core", "Properties", "name")}) = 1

\* the state after a failed check
C4_FailureState ==
    \A i \in 1..Len(requests) :
      requests[i].resp # "ok" =>
        /\ i = Len(requests)
        /\ Failed
        /\ error.url = requests[i].url
        /\ error.url \notin checked_urls
        /\ IF requests[i].resp = "404"
           THEN error.kind = "Exception" /\ Contains(error.msg, error.url)
           ELSE error.kind = requests[i].resp

\* C4: a check answered 404 ends the render at once with an error whose
\* message holds the URL; the URL is not added to checked_urls; any other
\* failure of the check ends the render with that failure itself; after a
\* failure nothing more is written and no further request is sent.
C4_CheckFailureIsFatal ==
    /\ []C4_FailureState
    /\ [][Failed => /\ out' = out
                    /\ requests' = requests
                    /\ checked_urls' = checked_urls
                    /\ Failed']_vars

\* a 404 ended a render that had already written part of the tree, and
\* main has been left
C4_Witness ==
    /\ status = "exited"
    /\ error.kind = "Exception"
    /\ requests[Len(requests)].resp = "404"
    /\ Len(requests) > 1
    /\ At("token") # {}

IsStructural(e) == e.e = "token" /\ e.cls \in {"{", "}", "[", "]"}

\* the openers still unclosed after the first n structural tokens, or
\* <<"!">> when a closer came without its opener
RECURSIVE Unclosed(_, _)
Unclosed(toks, n) ==
    IF n = 0 THEN <<>>
    ELSE LET prev == Unclosed(toks, n - 1)
             c    == toks[n].cls
         IN  IF prev = <<"!">> THEN prev
             ELSE IF c \in {"{", "["} THEN Append(prev, c)
             ELSE IF prev # <<>> /\ prev[Len(prev)] = (IF c = "}" THEN "{" ELSE "[")
             THEN SubSeq(prev, 1, Len(prev) - 1)
             ELSE <<"!">>

\* C7: at every prefix of the output each closing brace or bracket closes
\* the most recent unclosed opener; once the render is complete nothing is
\* unclosed, and before that, after the root's opening brace, something is.
C7_Balanced ==
    LET toks == SelectSeq(out, IsStructural)
    IN  /\ \A n \in 0..Len(toks) : Unclosed(toks, n) # <<"!">>
        /\ \A n \in 1..Len(toks) :
             Unclosed(toks, n) = <<>> =>
               n = Len(toks) /\ status \in {"rendering", "written", "done"} /\ stack = <<>>
        /\ status \in {"written", "done"} =>
             Len(toks) > 0 /\ Unclosed(toks, Len(toks)) = <<>>

\* a complete render whose output nests an array in an object in an array
\* in an object
C7_Witness ==
    LET toks == SelectSeq(out, IsStructural)
    IN  /\ status = "done"
        /\ \E n \in 1..Len(toks) : Len(Unclosed(toks, n)) >= 5
        /\ \E n \in 1..(Len(toks) - 1) : toks[n].cls = "[" /\ toks[n + 1].cls = "]"

\* the nested "@context" of the descriptor of k in context c, if it has
\* one, else c
DescriptorContext(c, k) ==
    IF /\ k \in DOMAIN Contexts[c].terms
       /\ Contexts[c].terms[k].dict
       /\ Contexts[c].terms[k].ctx # NoCtx
    THEN Contexts[c].terms[k].ctx
    ELSE c

\* C5 as claimed: the value of every key whose descriptor in the current
\* context carries a nested "@context" is rendered under that nested
\* context, the value of any other key under the current context.
C5_NestedContextAlways ==
    \A j \in 2..Len(stack) :
      stack[j - 1].pc = "kv_resume" =>
        stack[j].ctx = DescriptorContext(stack[j - 1].ctx, stack[j - 1].key)

\* C5, amended: under a context without "@vocab", the value of a key whose
\* descriptor carries a nested "@context" is rendered under that nested
\* context and the value of any other key under the current context; under
\* a context with "@vocab" every value is rendered under the current
\* context.  The keys of an object and the elements of an array are
\* rendered under the context of the object or array.
C5_NestedContext ==
    \A j \in 2..Len(stack) :
      /\ stack[j - 1].pc = "kv_resume" =>
           stack[j].ctx = IF HasVocab(stack[j - 1].ctx)
                          THEN stack[j - 1].ctx
                          ELSE DescriptorContext(stack[j - 1].ctx, stack[j - 1].key)
      /\ stack[j - 1].pc \in {"obj_resume", "list_resume"} =>
           stack[j].ctx = stack[j - 1].ctx

\* the walk is inside the value of "creationInfo", under the nested
\* context and not the root's: there the key "name" was linked to the
\* nested mapping and the key "label", a term of the root only, was not
\* linked
C5_Witness ==
    /\ \E j \in 2..Len(stack) :
         /\ stack[j - 1].pc = "kv_resume"
         /\ stack[j - 1].key = S("creationInfo")
         /\ stack[j - 1].ctx = "root"
         /\ stack[j].pc = "obj_resume"
         /\ stack[j].ctx = "nested"
    /\ \E i \in At("string") :
         /\ out[i] = Ev("string", S("name"), "properties")
         /\ out[i - 1] = Ev("a", ModelUrl("Software", "Properties", "name"), "")
    /\ \E i \in At("string") : out[i] = Ev("string", S("label"), "string")
    /\ \A i \in At("string") : out[i] # Ev("string", S("label"), "properties")

\* out[i] is the colon after the key k
ColonAfterKey(i, k) ==
    /\ out[i] = Token(":")
    /\ \/ out[i - 1].e = "string" /\ out[i - 1].s = k
       \/ i > 2 /\ out[i - 1].e = "a_end" /\ out[i - 2].e = "string" /\ out[i - 2].s = k

\* what Scenario 1 expects of the output and of the requests
Scenario1Expected ==
    LET url == ModelUrl("Core", "Classes", "SpdxDocument")
    IN  /\ \E i \in At("span_id") : out[i].s = S("urn:x")
        /\ \E i \in At("token") :
             /\ ColonAfterKey(i, S("type"))
             /\ i + 3 <= Len(out)
             /\ out[i + 1] = Ev("a", url, "")
             /\ out[i + 2] = Ev("string", S("SpdxDocument"), "classes")
             /\ out[i + 3] = Ev("a_end", None, "")
        /\ Cardinality({r \in 1..Len(requests) : requests[r].url = url}) = 1

\* C6 as claimed: Scenario 1 with the root context whose only mapping is
\* type -> {"@id": ".../Core/Classes/SpdxDocument"}.
C6_Scenario1AsStated ==
    (data = Doc(<<NodeDoc>>) /\ root = "scenario1" /\ status = "done")
      => Scenario1Expected

\* C6, amended: with the root context whose only mapping is
\* SpdxDocument -> {"@id": ".../Core/SpdxDocument"}, a completed render of
\* the graph [{"@id": "urn:x", "type": "SpdxDocument"}] has an id-bearing
\* span for urn:x, the value of "type" linked to
\* .../model/Core/Classes/SpdxDocument, and that URL requested once.
C6_Scenario1 ==
    (data = Doc(<<NodeDoc>>) /\ root = "scenario1b" /\ status = "done")
      => Scenario1Expected

\* the amended scenario was rendered to the end, with the link written and
\* its URL requested once
C6_Witness ==
    data = Doc(<<NodeDoc>>) /\ root = "scenario1b" /\ status = "done"
      /\ Scenario1Expected

\* a node with a string "type", a non-empty own identifier and a non-empty
\* externalSpdxId
CarriesAllThree(obj) ==
    /\ HasKey(obj, S("type")) /\ Get(obj, S("type")).t = "str"
    /\ HasKey(obj, S("@id")) \/ HasKey(obj, S("spdxId"))
    /\ get_obj_id(obj).t = "str" /\ get_obj_id(obj).s # EmptyStr
    /\ HasKey(obj, S("externalSpdxId"))
    /\ Get(obj, S("externalSpdxId")).t = "str"
    /\ Get(obj, S("externalSpdxId")).s # EmptyStr

\* the class anchor of the node about to be written by the top frame
ClassAnchor == anchor_candidate(Get(Top.val, S("type")).s, "class", Top.ctx)

\* the n pieces written by the step
Written(n) == SubSeq(out', Len(out) + 1, Len(out) + n)

\* C8 as claimed: every node with type, own identifier and externalSpdxId
\* is opened by three id-bearing spans (class anchor, own identifier,
\* external identifier) and the brace, and closed by the brace and three
\* span ends.
C8_ThreeSpansAlways ==
    [][/\ (Running("write_obj") /\ CarriesAllThree(Top.val) /\ status' = "rendering")
          => /\ Len(out') >= Len(out) + 4
             /\ Written(4) = <<Ev("span_id", html_escape(ClassAnchor), ""),
                               Ev("span_id", html_escape(get_obj_id(Top.val).s), ""),
                               Ev("span_id",
                                  html_escape(Get(Top.val, S("externalSpdxId")).s), ""),
                               Token("{")>>
       /\ (Running("obj_resume") /\ CarriesAllThree(Top.val)
             /\ Top.i = Len(Top.val.kv))
          => out' = out \o <<NL, Indent(Top.indent), Token("}"),
                             SpanEnd, SpanEnd, SpanEnd>>]_vars

\* C8, amended: a node with a string type, a non-empty own identifier and a
\* non-empty externalSpdxId whose class anchor was not handed out before is
\* opened by three id-bearing spans (class anchor, own identifier, external
\* identifier) and closed by three span ends after the brace; one whose
\* class anchor was handed out before is opened by the two identifier spans
\* only (own, then external) and closed by two span ends.
C8_ThreeSpans ==
    [][/\ (Running("write_obj") /\ CarriesAllThree(Top.val) /\ status' = "rendering")
          => LET n == IF ClassAnchor \in anchors THEN 3 ELSE 4
             IN  /\ Len(out') >= Len(out) + n
                 /\ Written(n) =
                      (IF ClassAnchor \in anchors THEN <<>>
                       ELSE <<Ev("span_id", html_escape(ClassAnchor), "")>>)
                      \o <<Ev("span_id", html_escape(get_obj_id(Top.val).s), ""),
                           Ev("span_id",
                              html_escape(Get(Top.val, S("externalSpdxId")).s), ""),
                           Token("{")>>
                 /\ stack'[Len(stack)].anchor # None <=> ClassAnchor \notin anchors
       /\ (Running("obj_resume") /\ CarriesAllThree(Top.val)
             /\ Top.i = Len(Top.val.kv))
          => out' = out \o <<NL, Indent(Top.indent), Token("}"), SpanEnd, SpanEnd>>
                        \o (IF Top.anchor # None THEN <<SpanEnd>> ELSE <<>>)]_vars

\* a node was written inside the three spans of its class anchor, its
\* spdxId and its externalSpdxId, opened in that order and all closed
C8_Witness ==
    /\ \E i \in At("token") :
         /\ i > 3
         /\ SubSeq(out, i - 3, i) =
              <<Ev("span_id", Terms("Core", "Person"), ""),
                Ev("span_id", S("urn:p"), ""),
                Ev("span_id", S("urn:ext"), ""),
                Token("{")>>
    /\ \E i \in At("token") :
         /\ i + 3 <= Len(out)
         /\ SubSeq(out, i, i + 3) = <<Token("}"), SpanEnd, SpanEnd, SpanEnd>>

\* the identity index C9 describes
RECURSIVE ExternalIds(_)
ExternalIds(imports) ==
    IF imports = <<>> THEN {}
    ELSE {Get(Head(imports), S("externalSpdxId")).s} \cup ExternalIds(Tail(imports))

ClaimedIndex(doc) ==
    LET graph == IF HasKey(doc, S("@graph")) THEN Get(doc, S("@graph")).items ELSE <<>>
        nodes == {graph[i] : i \in 1..Len(graph)}
    IN  {get_obj_id(n).s : n \in {m \in nodes : Truthy(get_obj_id(m))}}
        \cup UNION {ExternalIds(IF HasKey(n, S("import"))
                                THEN Get(n, S("import")).items ELSE <<>>) :
                    n \in {m \in nodes : /\ HasKey(m, S("type"))
                                         /\ Get(m, S("type")) = Lit("SpdxDocument")}}

\* C9: once index_data has run, self.ids is the set of the identifiers of
\* the top-level nodes that have one, together with the externalSpdxId of
\* every import of every top-level node of type "SpdxDocument"; it does not
\* change during the render.
C9_IndexComplete ==
    status \in {"rendering", "written", "done"} => ids = ClaimedIndex(data)

\* the top frame is the call write_value for the direct value of a key "type"
DirectTypeValue ==
    /\ Len(stack) > 1
    /\ stack[Len(stack) - 1].pc = "kv_resume"
    /\ stack[Len(stack) - 1].key = S("type")

DocClasses == {"classes", "properties", "vocabularies"}

\* the documentation URL of the one context with "@vocab", from its IRI
\* https://spdx.org/rdf/3.0.1/terms/Core/AnnotationType/
VocabUrl == ModelUrl("Core", "Vocabularies", "AnnotationType")

\* C10: under a context without "@vocab" a string that is not the direct
\* value of a key "type" causes no request and is not rendered as a
\* documentation link; under a context with "@vocab" every key and every
\* string resolves to the one URL of the "@vocab" IRI with kind
\* Vocabularies, and the value of a key is rendered under the same context.
C10_KindByPosition ==
    [][/\ (/\ Running("write_value") /\ Top.val.t = "str"
           /\ ~HasVocab(Top.ctx) /\ ~DirectTypeValue)
          => /\ requests' = requests
             /\ \A i \in (Len(out) + 1)..Len(out') : out'[i].cls \notin DocClasses
       /\ (/\ Running("write_value") /\ Top.val.t = "str"
           /\ HasVocab(Top.ctx) /\ status' = "rendering")
          => /\ VocabUrl \in checked_urls'
             /\ Top.val.s \notin ids =>
                  out' = out \o <<Ev("a", VocabUrl, ""),
                                  Ev("string", Top.val.s, "vocabularies"),
                                  Ev("a_end", None, "")>>
       /\ (/\ Running("write_key_value") /\ HasVocab(Top.ctx)
           /\ status' = "rendering")
          => /\ VocabUrl \in checked_urls'
             /\ \E i \in (Len(out) + 1)..(Len(out') - 1) :
                  /\ out'[i] = Ev("a", VocabUrl, "")
                  /\ out'[i + 1] = Ev("string", Top.key, "vocabularies")
             /\ stack'[Len(stack')].ctx = Top.ctx
       /\ \A i \in (Len(requests) + 1)..Len(requests') :
            Running("write_value") \/ Running("write_key_value")]_vars

\* a string that is a term of its context, in an array, was rendered as a
\* plain literal; a key and a string under the "@vocab" context were both
\* linked to the URL of the "@vocab" IRI
C10_Witness ==
    /\ status = "done"
    /\ \E i \in At("string") :
         /\ out[i] = Ev("string", S("name"), "string")
         /\ out[i - 1].e = "indent"
    /\ \E i \in At("string") :
         /\ out[i] = Ev("string", S("inner"), "vocabularies")
         /\ out[i - 1] = Ev("a", VocabUrl, "")
    /\ \E i \in At("string") :
         /\ out[i] = Ev("string", S("review"), "vocabularies")
         /\ out[i - 1] = Ev("a", VocabUrl, "")

====
